---- MODULE Spec2Model ----
(***************************************************************************)
(* Model of ip.py: the download of a list of IPv4 CIDRs, its validation,   *)
(* its partition into address groups of a fixed capacity and the rendering *)
(* of the address-group file and of the ACL rule file.                     *)
(*                                                                         *)
(* A Python str is a sequence of one-character strings; a text file is the *)
(* sequence of the lines written to it (each write is one line + '\n').    *)
(***************************************************************************)
EXTENDS Integers, Sequences, FiniteSets, TLC

VARIABLES pc, data_date, response, cidrs, skipped, files, num_groups, cleaned

vars == <<pc, data_date, response, cidrs, skipped, files, num_groups, cleaned>>

(***************************************************************************)
(* Bounds of the model.                                                    *)
(***************************************************************************)
\* lines of a small response text
MaxLines == 2
\* length of a small CIDR list handed to generate_ip_groups directly
MaxSmall == 3
\* a large CIDR list holds up to this many full groups (plus or minus one CIDR)
MaxFull == 2
\* the write that may fail is one of the first MaxWrites writes of a file
MaxWrites == 2

(***************************************************************************)
(* str and list helpers of the Python runtime.                             *)
(***************************************************************************)
DigitSeq == <<"0", "1", "2", "3", "4", "5", "6", "7", "8", "9">>

Digits == {DigitSeq[i] : i \in 1..10}

\* str(n) of a non-negative int, as the f-strings format it
RECURSIVE IntToStr(_)
IntToStr(n) == IF n < 10 THEN <<DigitSeq[n + 1]>>
               ELSE Append(IntToStr(n \div 10), DigitSeq[(n % 10) + 1])

\* the characters str.strip() removes (those the model's texts can hold)
Whitespace == {" ", "\t", "\n", "\r"}

\* str.strip()
Strip(s) ==
    LET keep == {i \in 1..Len(s) : s[i] \notin Whitespace}
    IN  IF keep = {} THEN <<>>
        ELSE SubSeq(s, CHOOSE i \in keep : \A j \in keep : i <= j,
                       CHOOSE i \in keep : \A j \in keep : j <= i)

\* str.startswith(p)
StartsWith(s, p) == Len(s) >= Len(p) /\ SubSeq(s, 1, Len(p)) = p

\* the marked positions of lo..hi in increasing order (evaluated by halves)
RECURSIVE MarkedIn(_, _, _)
MarkedIn(mark, lo, hi) ==
    IF lo > hi THEN <<>>
    ELSE IF lo = hi THEN (IF mark[lo] THEN <<lo>> ELSE <<>>)
    ELSE LET mid == (lo + hi) \div 2
         IN  MarkedIn(mark, lo, mid) \o MarkedIn(mark, mid + 1, hi)

\* str.splitlines(): a line ends at "\n", at "\r" or at "\r\n"; the text's
\* last line needs no terminator, and no empty line follows a final terminator
SplitLines(t) ==
    LET n == Len(t)
        isEnd == [i \in 1..n |->
                     t[i] = "\n" \/ (t[i] = "\r" /\ ~(i < n /\ t[i + 1] = "\n"))]
        ends == MarkedIn(isEnd, 1, n)
        m == Len(ends)
        first(k) == IF k = 1 THEN 1 ELSE ends[k - 1] + 1
        last(k) == IF t[ends[k]] = "\n" /\ ends[k] > 1 /\ t[ends[k] - 1] = "\r"
                   THEN ends[k] - 2 ELSE ends[k] - 1
        whole == [k \in 1..m |-> SubSeq(t, first(k), last(k))]
    IN  IF m = 0 THEN (IF n = 0 THEN <<>> ELSE <<t>>)
        ELSE IF ends[m] < n THEN Append(whole, SubSeq(t, ends[m] + 1, n))
        ELSE whole

\* sep.join(ss[lo..hi]) (evaluated by halves)
RECURSIVE JoinRange(_, _, _, _)
JoinRange(ss, sep, lo, hi) ==
    IF lo > hi THEN <<>>
    ELSE IF lo = hi THEN ss[lo]
    ELSE LET mid == (lo + hi) \div 2
         IN  JoinRange(ss, sep, lo, mid) \o sep \o JoinRange(ss, sep, mid + 1, hi)

\* sep.join(ss)
Join(ss, sep) == JoinRange(ss, sep, 1, Len(ss))

(***************************************************************************)
(* cidr_pattern: the regular expression of fetch_domestic_cidrs.           *)
(***************************************************************************)
\* mutant of OctetMatches: [0-9]{1,3}, any one to three digits
OctetMatchesAnyDigits(w) ==
    Len(w) \in 1..3 /\ \A i \in 1..Len(w) : w[i] \in Digits

\* (?:25[0-5]|2[0-4][0-9]|[01]?[0-9][0-9]?) matches the whole of w
OctetMatches(w) ==
    \/ /\ Len(w) = 3
       /\ w[1] = "2"
       /\ w[2] = "5"
       /\ w[3] \in {"0", "1", "2", "3", "4", "5"}
    \/ /\ Len(w) = 3
       /\ w[1] = "2"
       /\ w[2] \in {"0", "1", "2", "3", "4"}
       /\ w[3] \in Digits
    \/ \E a \in 0..1, b \in 0..1 :
          /\ Len(w) = a + 1 + b
          /\ a = 1 => w[1] \in {"0", "1"}
          /\ w[a + 1] \in Digits
          /\ b = 1 => w[a + 2] \in Digits

\* ([0-9]|[12][0-9]|3[0-2]) matches the whole of w
MaskMatches(w) ==
    \/ (Len(w) = 1 /\ w[1] \in Digits)
    \/ (Len(w) = 2 /\ w[1] \in {"1", "2"} /\ w[2] \in Digits)
    \/ (Len(w) = 2 /\ w[1] = "3" /\ w[2] \in {"0", "1", "2"})

\* the positions right after a match of the octet group that starts at i
OctetEnds(s, i) ==
    {j \in (i + 1)..(i + 3) : j <= Len(s) + 1 /\ OctetMatches(SubSeq(s, i, j - 1))}

\* the positions right after a match of the mask group that starts at i
MaskEnds(s, i) ==
    {j \in (i + 1)..(i + 2) : j <= Len(s) + 1 /\ MaskMatches(SubSeq(s, i, j - 1))}

\* the positions right after character c read at one of the positions P
After(s, P, c) == {i + 1 : i \in {k \in P : k <= Len(s) /\ s[k] = c}}

\* an octet group read from one of the positions P
Octets(s, P) == UNION {OctetEnds(s, i) : i \in P}

\* cidr_pattern.match(s): '^' octet '.' octet '.' octet '.' octet '/' mask '$',
\* where '$' holds at the end of s and before a newline that ends s
CidrPatternMatch(s) ==
    LET o1 == Octets(s, {1})
        o2 == Octets(s, After(s, o1, "."))
        o3 == Octets(s, After(s, o2, "."))
        o4 == Octets(s, After(s, o3, "."))
        mk == UNION {MaskEnds(s, i) : i \in After(s, o4, "/")}
    IN  \E e \in mk : e = Len(s) + 1 \/ (e = Len(s) /\ s[e] = "\n")

(***************************************************************************)
(* fetch_domestic_cidrs                                                    *)
(***************************************************************************)
\* mutant of ParseLine: the line is not stripped
ParseLineUnstripped(st, line_num, raw) ==
    IF raw = <<>> \/ StartsWith(raw, <<"#">>) THEN st
    ELSE IF CidrPatternMatch(raw)
         THEN [st EXCEPT !.cidrs = Append(@, raw)]
         ELSE [st EXCEPT !.skipped = Append(@, <<line_num, raw>>)]

\* one turn of the loop over the lines: st is (cidrs, skipped), the printed
\* 'skipped invalid line' messages being kept as (line_num, line) pairs
ParseLine(st, line_num, raw) ==
    LET line == Strip(raw)
    IN  IF line = <<>> \/ StartsWith(line, <<"#">>) THEN st
        ELSE IF CidrPatternMatch(line)
             THEN [st EXCEPT !.cidrs = Append(@, line)]
             ELSE [st EXCEPT !.skipped = Append(@, <<line_num, line>>)]

\* the loop 'for line_num, line in enumerate(lines, 1)' over lines lo..hi,
\* evaluated by halves, the first half before the second
RECURSIVE ParseLines(_, _, _, _)
ParseLines(lines, lo, hi, st) ==
    IF lo > hi THEN st
    ELSE IF lo = hi THEN ParseLine(st, lo, lines[lo])
    ELSE LET mid == (lo + hi) \div 2
             half == ParseLines(lines, lo, mid, st)
         IN  IF DOMAIN half = {} THEN half
             ELSE ParseLines(lines, mid + 1, hi, half)

\* a response is the body of a 2xx answer, or a failure of requests.get or
\* raise_for_status (RequestException), on which [] is returned
FetchDomesticCidrs(resp) ==
    IF ~resp.ok THEN [cidrs |-> <<>>, skipped |-> <<>>]
    ELSE LET lines == SplitLines(resp.text)
         IN  ParseLines(lines, 1, Len(lines), [cidrs |-> <<>>, skipped |-> <<>>])

(***************************************************************************)
(* The file system: the files of the working directory by name.            *)
(***************************************************************************)
\* the values get_data_date() can return (the clock is the environment's)
Dates == {"20261105", "20261106"}

\* f"domestic_ikuai_ipgroup-{data_date}.txt"
GroupFilename(date) == <<"domestic_ikuai_ipgroup-", date, ".txt">>

\* f"domestic_ikuai_acl-{data_date}.txt"
AclFilename(date) == <<"domestic_ikuai_acl-", date, ".txt">>

FileNames == {GroupFilename(d) : d \in Dates} \cup {AclFilename(d) : d \in Dates}

\* no file of that name
NoFile == [exists |-> FALSE, lines |-> <<>>]

\* a file holding these lines
FileOf(lines) == [exists |-> TRUE, lines |-> lines]

\* what may go wrong with a file: open() raises, or the n-th write raises
NoFault == [kind |-> "none", n |-> 0]

OpenFault == [kind |-> "open", n |-> 0]

WriteFault(k) == [kind |-> "write", n |-> k]

Faults == {NoFault, OpenFault} \cup {WriteFault(k) : k \in 1..MaxWrites}

\* 'if os.path.exists(name): os.remove(name)'
RemoveIfExists(fs, name) ==
    IF fs[name].exists THEN [fs EXCEPT ![name] = NoFile] ELSE fs

\* open(name, 'w'): the file is created, or truncated; or open raises
OpenW(fs, name, fault) ==
    IF fault = OpenFault THEN fs ELSE [fs EXCEPT ![name] = FileOf(<<>>)]

\* mutant of PrepareFile: nothing is removed and the file is opened to append
PrepareFileAppending(fs, name, fault) ==
    IF fault = OpenFault \/ fs[name].exists THEN fs
    ELSE [fs EXCEPT ![name] = FileOf(<<>>)]

\* the removal of the old file, then the open for writing
PrepareFile(fs, name, fault) == OpenW(RemoveIfExists(fs, name), name, fault)

\* f.write(line + '\n') on the open file held in st.f; st.raised once it raised
WriteLine(st, line, fault) ==
    IF fault = WriteFault(Len(st.f) + 1) THEN [st EXCEPT !.raised = TRUE]
    ELSE [st EXCEPT !.f = Append(@, line)]

(***************************************************************************)
(* generate_ip_groups                                                      *)
(***************************************************************************)
\* the capacity of a group
GroupCap == 1000

\* the id of the first group
BaseId == 60

\* f"id={num_id} comment= type=0 group_name=<P>-{num_line} addr_pool={','.join(addr_pool)}"
\* (<P> is the literal U+56FD U+5185 "IP" of the source, written "CN-IP" here)
GroupLine(num_id, num_line, addr_pool) ==
    <<"id=">> \o IntToStr(num_id)
        \o <<" ", "comment=", " ", "type=", "0", " ", "group_name=", "CN-IP", "-">>
        \o IntToStr(num_line) \o <<" ", "addr_pool=">> \o Join(addr_pool, <<",">>)

\* mutant of NotFull: '<=' for '<'
NotFullOffByOne(addr_pool) == Len(addr_pool) <= GroupCap

\* 'if len(addr_pool) < 1000: continue'
NotFull(addr_pool) == Len(addr_pool) < GroupCap

\* mutant of AfterWrite: num_id is not incremented
AfterWriteSameId(st) == [st EXCEPT !.num_line = @ + 1, !.addr_pool = <<>>]

\* the reset after a full group was written
AfterWrite(st) ==
    [st EXCEPT !.num_id = @ + 1, !.num_line = @ + 1, !.addr_pool = <<>>]

\* mutant of GroupBody: the group is written before the CIDR that fills it
\* is added, and the reset loses that CIDR
GroupBodyLosing(st, cidr, fault) ==
    IF st.raised THEN st
    ELSE IF NotFull(Append(st.addr_pool, cidr))
         THEN [st EXCEPT !.addr_pool = Append(@, cidr)]
         ELSE LET w == WriteLine(st, GroupLine(st.num_id, st.num_line,
                                               st.addr_pool), fault)
              IN  IF w.raised THEN w ELSE AfterWrite(w)

\* one turn of 'for cidr in cidrs'; nothing more runs once a write raised
GroupBody(st, cidr, fault) ==
    IF st.raised THEN st
    ELSE LET pooled == [st EXCEPT !.addr_pool = Append(@, cidr)]
         IN  IF NotFull(pooled.addr_pool) THEN pooled
             ELSE LET w == WriteLine(pooled,
                                     GroupLine(pooled.num_id, pooled.num_line,
                                               pooled.addr_pool), fault)
                  IN  IF w.raised THEN w ELSE AfterWrite(w)

\* the loop over cidrs[lo..hi], evaluated by halves, the first half before
\* the second
RECURSIVE GroupLoop(_, _, _, _, _)
GroupLoop(cs, lo, hi, st, fault) ==
    IF lo > hi THEN st
    ELSE IF lo = hi THEN GroupBody(st, cs[lo], fault)
    ELSE LET mid == (lo + hi) \div 2
             half == GroupLoop(cs, lo, mid, st, fault)
         IN  IF DOMAIN half = {} THEN half
             ELSE GroupLoop(cs, mid + 1, hi, half, fault)

\* mutant of Leftover: the last, partial group is not written
LeftoverForgotten(st, fault) == st

\* 'if addr_pool:' after the loop: the last, partial group
Leftover(st, fault) ==
    IF st.raised \/ st.addr_pool = <<>> THEN st
    ELSE LET w == WriteLine(st, GroupLine(st.num_id, st.num_line, st.addr_pool),
                            fault)
         IN  IF w.raised THEN w ELSE [w EXCEPT !.num_line = @ + 1]

\* generate_ip_groups(cidrs, data_date) on file system fs: the file system it
\* leaves, whether an exception left it, and the values it returns
GenerateIpGroups(cs, date, fs, fault) ==
    LET name == GroupFilename(date)
        opened == PrepareFile(fs, name, fault)
        st0 == [num_id |-> BaseId, num_line |-> 1, addr_pool |-> <<>>,
                f |-> opened[name].lines, raised |-> FALSE]
        st == Leftover(GroupLoop(cs, 1, Len(cs), st0, fault), fault)
    IN  IF fault = OpenFault
        THEN [files |-> opened, raised |-> TRUE, cleaned |-> fs[name].exists,
              group_filename |-> name, total_groups |-> 0]
        ELSE [files |-> [opened EXCEPT ![name] = FileOf(st.f)],
              raised |-> st.raised, cleaned |-> fs[name].exists,
              group_filename |-> name, total_groups |-> st.num_line - 1]

(***************************************************************************)
(* generate_acl_rules                                                      *)
(***************************************************************************)
\* mutant of SrcAddrs: range(1, num_groups)
SrcAddrsShort(n) == [i \in 1..(n - 1) |-> <<"CN-IP", "-">> \o IntToStr(i)]

\* [f"<P>-{i}" for i in range(1, num_groups + 1)]
SrcAddrs(n) == [i \in 1..n |-> <<"CN-IP", "-">> \o IntToStr(i)]

\* the rule line, around src_addr_str (its comment= text, Chinese in the
\* source, is written "allow-CN-IP" here)
AclRule(src_addr_str) ==
    <<"id=", "6", "0", " ", "enabled=", "yes", " ", "comment=", "allow-CN-IP",
      " ", "action=", "accept", " ", "dir=", "forward", " ", "ctdir=", "1", " ",
      "iinterface=", "any", " ", "ointerface=", "any", " ", "src_addr=">>
        \o src_addr_str
        \o <<" ", "dst_addr=", " ", "src6_addr=", " ", "dst6_addr=", " ",
             "src6_mode=", "0", " ", "dst6_mode=", "0", " ", "src6_suffix=", " ",
             "dst6_suffix=", " ", "src6_mac=", " ", "dst6_mac=", " ",
             "protocol=", "any", " ", "src_port=", " ", "dst_port=", " ",
             "week=", "1234567", " ", "time=", "00:00-23:59", " ",
             "ip_type=", "4">>

\* generate_acl_rules(num_groups, data_date) on file system fs
GenerateAclRules(n, date, fs, fault) ==
    LET name == AclFilename(date)
        opened == PrepareFile(fs, name, fault)
        st0 == [f |-> opened[name].lines, raised |-> FALSE]
        st == WriteLine(st0, AclRule(Join(SrcAddrs(n), <<",">>)), fault)
    IN  IF fault = OpenFault
        THEN [files |-> opened, raised |-> TRUE, acl_filename |-> name]
        ELSE [files |-> [opened EXCEPT ![name] = FileOf(st.f)],
              raised |-> st.raised, acl_filename |-> name]

(***************************************************************************)
(* The inputs the model runs the program on.                               *)
(***************************************************************************)
\* "a.b.c.d/m" from the texts of its four octets and of its mask
Cidr(a, b, c, d, m) ==
    a \o <<".">> \o b \o <<".">> \o c \o <<".">> \o d \o <<"/">> \o m

\* the i-th CIDR of a large list: 10.<i div 256>.<i mod 256>.0/24
BigCidr(i) ==
    Cidr(<<"1", "0">>, IntToStr(i \div 256), IntToStr(i % 256), <<"0">>,
         <<"2", "4">>)

\* a list of n different CIDRs
BigList(n) == [i \in 1..n |-> BigCidr(i)]

\* a list of n CIDRs that repeats seven of them
RepeatingList(n) == [i \in 1..n |-> BigCidr(i % 7)]

\* the decimal digit strings of length 1..w, leading zeros included
RECURSIVE DigitStrings(_)
DigitStrings(w) ==
    IF w = 0 THEN {}
    ELSE {<<d>> : d \in Digits}
         \cup DigitStrings(w - 1)
         \cup {Append(p, d) : p \in {q \in DigitStrings(w - 1) : Len(q) = w - 1},
                              d \in Digits}

\* texts tried as an octet: every digit string of up to three digits, and
\* some that are no octet
OctetTexts ==
    DigitStrings(3)
    \cup {<<>>, <<"0", "0", "0", "0">>, <<"0", "2", "5", "5">>,
          <<"1", "0", "0", "0">>, <<"a">>, <<"-", "1">>, <<"1", " ">>,
          <<"1", "#">>}

\* texts tried as a mask
MaskTexts ==
    DigitStrings(2)
    \cup {<<>>, <<"0", "3", "2">>, <<"0", "0", "0">>, <<"1", "0", "0">>,
          <<"3", "2", "0">>, <<"a">>, <<"-", "1">>, <<"2", "4", "x">>}

One == <<"1">>

\* lines that differ from 1.1.1.1/1 in one octet or in the mask
VariedLines ==
    {Cidr(o, One, One, One, One) : o \in OctetTexts}
    \cup {Cidr(One, o, One, One, One) : o \in OctetTexts}
    \cup {Cidr(One, One, o, One, One) : o \in OctetTexts}
    \cup {Cidr(One, One, One, o, One) : o \in OctetTexts}
    \cup {Cidr(One, One, One, One, m) : m \in MaskTexts}

GoodLine == Cidr(<<"1">>, <<"2">>, <<"3">>, <<"4">>, <<"2", "4">>)

OtherGoodLine == Cidr(<<"1", "0">>, <<"0">>, <<"0">>, <<"0">>, <<"8">>)

\* lines of the wrong shape: no slash, extra text, three and five octets, two
\* slashes, a comment after the CIDR, a sign
MisshapenLines ==
    {<<"1", ".", "2", ".", "3", ".", "4">>,
     GoodLine \o <<" ", "x">>,
     <<"x", " ">> \o GoodLine,
     <<"1", ".", "2", ".", "3", "/", "2", "4">>,
     <<"1", ".", "2", ".", "3", ".", "4", ".", "5", "/", "2", "4">>,
     GoodLine \o <<"/", "8">>,
     GoodLine \o <<"#", "c">>,
     <<"+">> \o GoodLine,
     <<"1", ".", "2", ".", "3", ".", "4", "/">>,
     <<"/", "2", "4">>}

CommentLine == <<"#", " ", "c", "o", "m", "m", "e", "n", "t">>

\* the lines small texts are made of: good ones (one of them padded), bad
\* octet, bad mask, misshapen, comments (one indented), blank ones
PaletteLines ==
    <<GoodLine,
      <<" ", "\t">> \o OtherGoodLine \o <<" ">>,
      Cidr(<<"9", "9", "9">>, One, One, One, <<"2", "4">>),
      Cidr(<<"1", "0">>, <<"0">>, <<"0">>, <<"0">>, <<"3", "3">>),
      GoodLine \o <<" ", "x">>,
      CommentLine,
      <<" ">> \o CommentLine,
      <<>>,
      <<" ", "\t", " ">>>>

\* the sequences of up to n palette lines
RECURSIVE LineSeqs(_)
LineSeqs(n) ==
    IF n = 0 THEN {<<>>}
    ELSE LineSeqs(n - 1)
         \cup {Append(ls, PaletteLines[k]) : ls \in {q \in LineSeqs(n - 1) : Len(q) = n - 1},
                                            k \in 1..Len(PaletteLines)}

\* the example of the description: five lines, one of them good
ExampleLines ==
    <<GoodLine,
      Cidr(<<"9", "9", "9">>, One, One, One, <<"2", "4">>),
      Cidr(<<"1", "0">>, <<"0">>, <<"0">>, <<"0">>, <<"3", "3">>),
      CommentLine,
      <<>>>>

\* the texts of the extractor's runs: lines joined by "\n", by "\r\n", and
\* with a final "\n"
Texts ==
    {Join(ls, <<"\n">>) : ls \in LineSeqs(MaxLines) \cup {ExampleLines}}
    \cup {Join(ls, <<"\r", "\n">>) : ls \in LineSeqs(MaxLines)}
    \cup {Join(ls, <<"\n">>) \o <<"\n">> : ls \in LineSeqs(MaxLines)}
    \cup {Join(<<l>>, <<"\n">>) : l \in VariedLines \cup MisshapenLines}

\* an answer with a body, and a failed request
Body(text) == [ok |-> TRUE, text |-> text]

Failed == [ok |-> FALSE, text |-> <<>>]

\* the answers of the extractor's runs
Responses == {Body(t) : t \in Texts} \cup {Failed}

\* the CIDR lists generate_ip_groups is run on: every list of up to MaxSmall
\* of two CIDRs, and lists around one to MaxFull full groups, and 2500
RECURSIVE SmallLists(_)
SmallLists(n) ==
    IF n = 0 THEN {<<>>}
    ELSE SmallLists(n - 1)
         \cup {Append(l, c) : l \in {q \in SmallLists(n - 1) : Len(q) = n - 1},
                              c \in {GoodLine, OtherGoodLine}}

LargeSizes ==
    {k * GroupCap + d : k \in 1..MaxFull, d \in {-1, 0, 1}}
    \cup {2 * GroupCap + GroupCap \div 2}

CidrLists ==
    SmallLists(MaxSmall)
    \cup {BigList(n) : n \in LargeSizes}
    \cup {RepeatingList(GroupCap + 1)}

\* the bodies main's runs download: empty, nothing valid, a few lines, and
\* one more CIDR than fills a group
FeedTexts ==
    {<<>>,
     Join(<<CommentLine, Cidr(<<"9", "9", "9">>, One, One, One, One)>>, <<"\n">>),
     Join(<<CommentLine, GoodLine, <<>>, OtherGoodLine \o <<" ", "x">>,
            OtherGoodLine>>, <<"\n">>),
     Join(BigList(GroupCap + 1), <<"\n">>) \o <<"\n">>}

FeedResponses == {Body(t) : t \in FeedTexts} \cup {Failed}

\* fetch_domestic_cidrs on each of these answers (a table, computed once)
FetchOf == [resp \in FeedResponses |-> FetchDomesticCidrs(resp)]

\* a directory with no file
EmptyFs == [name \in FileNames |-> NoFile]

\* a directory where an earlier run left a group file for that date
StaleFs(date) ==
    [EmptyFs EXCEPT ![GroupFilename(date)] =
        FileOf(<<GroupLine(BaseId, 1, <<OtherGoodLine>>),
                 GroupLine(BaseId + 1, 2, <<OtherGoodLine>>)>>)]

(***************************************************************************)
(* main: one action per call it makes.                                     *)
(***************************************************************************)
\* main has not run, or its last run is over
Idle == {"start", "exit_no_cidrs", "exit_no_groups", "raised_in_groups",
         "raised_in_acl", "done"}

\* mutant of NoCidrs: the test is missing
NoCidrsUnchecked(cs) == FALSE

\* 'if not cidrs'
NoCidrs(cs) == cs = <<>>

\* data_date = get_data_date(); cidrs = fetch_domestic_cidrs(CN_IP_URL);
\* 'if not cidrs: return'
MainFetch ==
    /\ pc \in Idle
    /\ \E date \in Dates, resp \in FeedResponses :
          LET got == FetchOf[resp]
          IN  /\ data_date' = date
              /\ response' = resp
              /\ cidrs' = got.cidrs
              /\ skipped' = got.skipped
              /\ pc' = IF NoCidrs(got.cidrs) THEN "exit_no_cidrs" ELSE "fetched"
    /\ num_groups' = 0
    /\ cleaned' = FALSE
    /\ UNCHANGED files

\* group_file, num_groups = generate_ip_groups(cidrs, data_date);
\* 'if num_groups == 0: return'; an exception of a write leaves main
MainGroups ==
    /\ pc = "fetched"
    /\ \E fault \in Faults :
          LET r == GenerateIpGroups(cidrs, data_date, files, fault)
          IN  /\ files' = r.files
              /\ cleaned' = r.cleaned
              /\ num_groups' = IF r.raised THEN num_groups ELSE r.total_groups
              /\ pc' = IF r.raised THEN "raised_in_groups"
                       ELSE IF r.total_groups = 0 THEN "exit_no_groups"
                       ELSE "grouped"
    /\ UNCHANGED <<data_date, response, cidrs, skipped>>

\* acl_file = generate_acl_rules(num_groups, data_date), then the summary
MainAcl ==
    /\ pc = "grouped"
    /\ \E fault \in Faults :
          LET r == GenerateAclRules(num_groups, data_date, files, fault)
          IN  /\ files' = r.files
              /\ pc' = IF r.raised THEN "raised_in_acl" ELSE "done"
    /\ UNCHANGED <<data_date, response, cidrs, skipped, num_groups, cleaned>>

Init ==
    /\ pc = "start"
    /\ data_date = "unset"
    /\ response = Failed
    /\ cidrs = <<>>
    /\ skipped = <<>>
    /\ files = EmptyFs
    /\ num_groups = 0
    /\ cleaned = FALSE

Next == MainFetch \/ MainGroups \/ MainAcl

Spec == Init /\ [][Next]_vars

(***************************************************************************)
(* fetch_domestic_cidrs run on each answer.                                *)
(***************************************************************************)
InitExtract ==
    /\ pc = "call_fetch"
    /\ data_date = "unset"
    /\ response \in Responses
    /\ cidrs = <<>>
    /\ skipped = <<>>
    /\ files = EmptyFs
    /\ num_groups = 0
    /\ cleaned = FALSE

CallFetch ==
    /\ pc = "call_fetch"
    /\ LET got == FetchDomesticCidrs(response)
       IN  cidrs' = got.cidrs /\ skipped' = got.skipped
    /\ pc' = "fetch_returned"
    /\ UNCHANGED <<data_date, response, files, num_groups, cleaned>>

NextExtract == CallFetch

SpecExtract == InitExtract /\ [][NextExtract]_vars

(***************************************************************************)
(* generate_ip_groups run on each CIDR list.                               *)
(***************************************************************************)
InitGroups ==
    /\ pc = "call_groups"
    /\ data_date \in Dates
    /\ response = Failed
    /\ cidrs \in CidrLists
    /\ skipped = <<>>
    /\ files \in {EmptyFs} \cup {StaleFs(d) : d \in Dates}
    /\ num_groups = 0
    /\ cleaned = FALSE

CallGroups ==
    /\ pc = "call_groups"
    /\ \E fault \in Faults :
          LET r == GenerateIpGroups(cidrs, data_date, files, fault)
          IN  /\ files' = r.files
              /\ cleaned' = r.cleaned
              /\ num_groups' = r.total_groups
              /\ pc' = IF r.raised THEN "groups_raised" ELSE "groups_returned"
    /\ UNCHANGED <<data_date, response, cidrs, skipped>>

NextGroups == CallGroups

SpecGroups == InitGroups /\ [][NextGroups]_vars

(***************************************************************************)
(* Reading the files back: what the properties below use to take the      *)
(* written lines apart.  A field name with its '=' is one element of a     *)
(* line.                                                                   *)
(***************************************************************************)
\* the value of a decimal digit
DigitVal(c) == (CHOOSE i \in 1..10 : DigitSeq[i] = c) - 1

\* the number a string of decimal digits writes
RECURSIVE StrToInt(_)
StrToInt(s) == IF Len(s) = 0 THEN 0
               ELSE 10 * StrToInt(SubSeq(s, 1, Len(s) - 1)) + DigitVal(s[Len(s)])

\* s.split(c) for a one-character separator c: one piece more than separators
Split(s, c) ==
    LET n == Len(s)
        isSep == [i \in 1..n |-> s[i] = c]
        seps == MarkedIn(isSep, 1, n)
        m == Len(seps)
        first(k) == IF k = 1 THEN 1 ELSE seps[k - 1] + 1
        last(k) == IF k = m + 1 THEN n ELSE seps[k] - 1
    IN  [k \in 1..(m + 1) |-> SubSeq(s, first(k), last(k))]

\* the value of field key of a line of space-separated key=value fields
FieldOf(line, key) ==
    LET parts == Split(line, " ")
        k == CHOOSE i \in 1..Len(parts) : Len(parts[i]) >= 1 /\ parts[i][1] = key
    IN  SubSeq(parts[k], 2, Len(parts[k]))

\* the members a group line lists: its addr_pool field split on ','
MembersOf(line) ==
    IF FieldOf(line, "addr_pool=") = <<>> THEN <<>>
    ELSE Split(FieldOf(line, "addr_pool="), ",")

\* the lines of the group file and of the ACL file of the run's date
GroupFileLines == files[GroupFilename(data_date)].lines

AclFileLines == files[AclFilename(data_date)].lines

\* the members of all the lines, in file order
AllMembers(lines) == Join([k \in 1..Len(lines) |-> MembersOf(lines[k])], <<>>)

(***************************************************************************)
(* Claims about generate_ip_groups, under SpecGroups.                      *)
(***************************************************************************)
\* C1: once generate_ip_groups has returned, the addr_pool fields of the
\* lines of the group file, each split on ',' and concatenated in file
\* order, are the input list: same elements, order and multiplicity.
C1_RoundTrip ==
    pc = "groups_returned" =>
        /\ \A k \in 1..Len(GroupFileLines) :
              FieldOf(GroupFileLines[k], "addr_pool=")
                  = Join(MembersOf(GroupFileLines[k]), <<",">>)
        /\ AllMembers(GroupFileLines) = cidrs

\* C1 witness: a list that repeats CIDRs and spills over one full group
C1_Witness ==
    /\ pc = "groups_returned"
    /\ Len(GroupFileLines) = 2
    /\ \E i, j \in 1..8 : i < j /\ cidrs[i] = cidrs[j]

\* C2: once generate_ip_groups has returned on n CIDRs, every group but the
\* last has exactly 1000 members, the last has 1 to 1000, none has zero,
\* and there are ceil(n / 1000) groups (none for n = 0, one for n = 1000).
C2_GroupSizes ==
    pc = "groups_returned" =>
        LET n == Len(cidrs)
            g == Len(GroupFileLines)
            size(k) == Len(MembersOf(GroupFileLines[k]))
        IN  /\ \A k \in 1..(g - 1) : size(k) = 1000
            /\ g > 0 => size(g) \in 1..1000
            /\ g = (n + 999) \div 1000
            /\ n = 0 => g = 0
            /\ n = 1000 => g = 1

\* C2 witness: exactly 1000 CIDRs gave exactly one group
C2_Witness ==
    /\ pc = "groups_returned"
    /\ Len(cidrs) = 1000
    /\ Len(GroupFileLines) = 1

\* C3: once generate_ip_groups has returned, the k-th line of the group file
\* has id 60 + (k - 1) and the name <prefix>-k, whatever the date, and the
\* count returned is the number of lines; 2500 CIDRs give three groups of
\* 1000, 1000 and 500 members with ids 60, 61, 62.
C3_IdsAndNames ==
    pc = "groups_returned" =>
        /\ num_groups = Len(GroupFileLines)
        /\ \A k \in 1..Len(GroupFileLines) :
              /\ FieldOf(GroupFileLines[k], "id=") = IntToStr(60 + (k - 1))
              /\ FieldOf(GroupFileLines[k], "group_name=")
                    = <<"CN-IP", "-">> \o IntToStr(k)
        /\ Len(cidrs) = 2500 =>
              /\ [k \in 1..Len(GroupFileLines) |-> Len(MembersOf(GroupFileLines[k]))]
                    = <<1000, 1000, 500>>
              /\ [k \in 1..Len(GroupFileLines) |->
                      StrToInt(FieldOf(GroupFileLines[k], "id="))] = <<60, 61, 62>>

\* C3 witness: 2500 CIDRs were written as three groups
C3_Witness ==
    /\ pc = "groups_returned"
    /\ Len(cidrs) = 2500
    /\ num_groups = 3

(***************************************************************************)
(* Claims about the extractor (the parsing loop of fetch_domestic_cidrs),  *)
(* under SpecExtract.  The grammar is stated by value, not by the regular  *)
(* expression.                                                             *)
(***************************************************************************)
AllDigits(w) == \A i \in 1..Len(w) : w[i] \in Digits

\* one to three digits of value 0..255
OctetByValue(w) == Len(w) \in 1..3 /\ AllDigits(w) /\ StrToInt(w) <= 255

\* the decimal numeral of a number of 0..32
MaskNumeral(w) == \E m \in 0..32 : w = IntToStr(m)

\* A.B.C.D/M: four octets, one slash, the mask
GrammarCidr(s) ==
    LET halves == Split(s, "/")
        octets == Split(halves[1], ".")
    IN  /\ Len(halves) = 2
        /\ Len(octets) = 4
        /\ \A k \in 1..4 : OctetByValue(octets[k])
        /\ MaskNumeral(halves[2])

\* the lines of the response, trimmed
TrimmedLines ==
    LET lines == SplitLines(response.text)
    IN  [k \in 1..Len(lines) |-> Strip(lines[k])]

BlankOrComment(line) == line = <<>> \/ line[1] = "#"

\* C5: the extractor returns the trimmed lines that match the grammar, in
\* order and verbatim; it reports as malformed exactly the other lines that
\* are neither blank nor comments, with their numbers, and goes on.
C5_Extract ==
    (pc = "fetch_returned" /\ response.ok) =>
        LET t == TrimmedLines
            bad == [k \in 1..Len(t) |-> ~BlankOrComment(t[k]) /\ ~GrammarCidr(t[k])]
            badAt == MarkedIn(bad, 1, Len(t))
        IN  /\ cidrs = SelectSeq(t, GrammarCidr)
            /\ skipped = [j \in 1..Len(badAt) |-> <<badAt[j], t[badAt[j]]>>]
            /\ \A j \in 1..Len(skipped) : ~BlankOrComment(skipped[j][2])

\* C5 witness: the first line was reported as malformed and a later one, that
\* needed trimming, was accepted
C5_Witness ==
    /\ pc = "fetch_returned"
    /\ Len(skipped) = 1
    /\ skipped[1][1] = 1
    /\ cidrs = <<OtherGoodLine>>

\* C6: every string returned has four dot-separated octets of one to three
\* digits and value 0..255, a slash, and a mask of digits and value 0..32.
C6_WellFormed ==
    pc = "fetch_returned" =>
        \A i \in 1..Len(cidrs) :
            LET halves == Split(cidrs[i], "/")
                octets == Split(halves[1], ".")
            IN  /\ Len(halves) = 2
                /\ Len(octets) = 4
                /\ \A k \in 1..4 : /\ Len(octets[k]) \in 1..3
                                   /\ AllDigits(octets[k])
                                   /\ StrToInt(octets[k]) \in 0..255
                /\ Len(halves[2]) >= 1
                /\ AllDigits(halves[2])
                /\ StrToInt(halves[2]) \in 0..32

\* C6 witness: a CIDR was accepted on the line after one whose first octet,
\* 999, was refused
C6_Witness ==
    /\ pc = "fetch_returned"
    /\ cidrs = <<GoodLine>>
    /\ Len(skipped) = 1
    /\ skipped[1][1] = 1
    /\ skipped[1][2] = Cidr(<<"9", "9", "9">>, One, One, One, <<"2", "4">>)

(***************************************************************************)
(* Claims about main's runs, under Spec.                                   *)
(***************************************************************************)
\* the names the group file's lines carry, in file order
NamesInGroupFile ==
    [k \in 1..Len(GroupFileLines) |-> FieldOf(GroupFileLines[k], "group_name=")]

\* C4: when a run has written the ACL file, that file is one line whose
\* src_addr field, split on ',', is the names of the lines of the group file
\* of the same run, in the same order.
C4_AclNames ==
    pc = "done" =>
        /\ Len(AclFileLines) = 1
        /\ Split(FieldOf(AclFileLines[1], "src_addr="), ",") = NamesInGroupFile

\* C4 witness: a run that wrote two groups and the ACL file
C4_Witness ==
    /\ pc = "done"
    /\ Len(GroupFileLines) = 2
    /\ files[AclFilename(data_date)].exists

\* C7: a run whose fetch fails or finds no CIDR ends at once and leaves
\* every file as it was; files change only in a run that fetched CIDRs; a
\* run that produces no group does not touch the ACL file.
C7_NoCidrsNoFiles ==
    [][/\ (pc \in Idle /\ (~response'.ok \/ cidrs' = <<>>))
            => (pc' = "exit_no_cidrs" /\ files' = files)
       /\ files' # files
            => (pc \in {"fetched", "grouped"} /\ response.ok /\ cidrs # <<>>)
       /\ pc' = "exit_no_groups"
            => files'[AclFilename(data_date)] = files[AclFilename(data_date)]]_vars

\* C7 witness: a failed fetch ended a run that found the files of an earlier
\* run, which are still there
C7_Witness ==
    /\ pc = "exit_no_cidrs"
    /\ ~response.ok
    /\ files[GroupFilename(data_date)].exists
    /\ files[AclFilename(data_date)].exists

\* C8 (as claimed): after any run that read an input list, the output files
\* of its date hold only what derives from that list: the members of the
\* group file are that list, and the ACL file names that list's groups.
C8_OnlyLatestInput ==
    (/\ pc \in {"done", "exit_no_cidrs", "exit_no_groups"}
     /\ response.ok
     /\ Len(GroupFileLines) >= 1
     /\ Len(AclFileLines) >= 1) =>
        /\ AllMembers(GroupFileLines) = cidrs
        /\ Len(AclFileLines) = 1
        /\ Len(Split(FieldOf(AclFileLines[1], "src_addr="), ","))
              = (Len(cidrs) + 999) \div 1000

\* C8 (amended): after a run has written the group file, the file holds the
\* groups of that run's CIDRs and nothing else, whatever the path held before;
\* after it has written the ACL file, that file is the one line of that run.
C8_Replaced ==
    /\ pc \in {"grouped", "done"} =>
          /\ AllMembers(GroupFileLines) = cidrs
          /\ Len(GroupFileLines) = num_groups
          /\ FieldOf(GroupFileLines[1], "id=") = IntToStr(BaseId)
    /\ pc = "done" =>
          /\ Len(AclFileLines) = 1
          /\ Len(Split(FieldOf(AclFileLines[1], "src_addr="), ",")) = num_groups

\* C8 witness: a rerun for the same date has removed the old group file and
\* written another number of groups than the ACL file of the earlier run
\* names
C8_Witness ==
    /\ pc = "grouped"
    /\ cleaned
    /\ Len(AclFileLines) = 1
    /\ Len(Split(FieldOf(AclFileLines[1], "src_addr="), ",")) # Len(GroupFileLines)

\* C9 (as claimed): after a run that a failed write ended, the path of the
\* file being written holds no file.
C9_NoFileAfterFailure ==
    /\ pc = "raised_in_groups" => ~files[GroupFilename(data_date)].exists
    /\ pc = "raised_in_acl" => ~files[AclFilename(data_date)].exists

\* C10: the ACL file is written only by the step that follows a complete
\* write of the group file, and the group file only after a fetch that found
\* CIDRs; the count returned to main is never 0, so the 'num_groups == 0'
\* exit is never taken, and a run whose writes succeed ends with both files.
C10_Order ==
    /\ [](/\ pc # "exit_no_groups"
          /\ pc = "fetched" => cidrs # <<>>
          /\ pc \in {"grouped", "done"} =>
                /\ num_groups >= 1
                /\ files[GroupFilename(data_date)].exists
                /\ Len(GroupFileLines) = num_groups
          /\ pc = "done" => files[AclFilename(data_date)].exists)
    /\ [][/\ (\E d \in Dates : files'[AclFilename(d)] # files[AclFilename(d)])
               => pc = "grouped"
          /\ (\E d \in Dates : files'[GroupFilename(d)] # files[GroupFilename(d)])
               => pc = "fetched"
          /\ pc' = "fetched" => pc \in Idle
          /\ pc' = "grouped" => pc = "fetched"
          /\ pc' = "done" => pc = "grouped"]_vars

\* C10 witness: a run ended with both of its files written
C10_Witness ==
    /\ pc = "done"
    /\ num_groups = 1
    /\ Len(GroupFileLines) = 1
    /\ Len(AclFileLines) = 1

====
